---- MODULE Spec2Model ----
(***************************************************************************)
(* Occurrence generation of the session system (backend/app/routes/admin.py)*)
(* as a state machine over the occurrence table.  One action per admin     *)
(* handler; a handler and the request transaction around it                *)
(* (backend/app/db.py, get_db_session) are one atomic step: the handler's  *)
(* writes are committed when it returns and rolled back when it raises.    *)
(***************************************************************************)
EXTENDS Integers, Sequences, FiniteSets, Bags, TLC

\* Python's None, in a column of strings and in a column of integers
None == "None"
NoneInt == 0 - 1

----------------------------------------------------------------------------
(* Calendar arithmetic of datetime.date / datetime.datetime.  A date is its *)
(* proleptic Gregorian ordinal, a time of day is minutes after midnight, an *)
(* instant (a timezone-aware datetime, as the database compares it) is      *)
(* minutes since ordinal 0, 00:00 UTC.                                      *)

IsLeap(y) == (y % 4 = 0) /\ ((y % 100 # 0) \/ (y % 400 = 0))

DaysBeforeYear(y) ==
    LET p == y - 1 IN p * 365 + (p \div 4) - (p \div 100) + (p \div 400)

DaysBeforeMonth(y, m) ==
    LET t == <<0, 31, 59, 90, 120, 151, 181, 212, 243, 273, 304, 334>>
    IN  t[m] + (IF m > 2 /\ IsLeap(y) THEN 1 ELSE 0)

\* date(y, m, d)
Date(y, m, d) == DaysBeforeYear(y) + DaysBeforeMonth(y, m) + d

\* time(h, mi)
Time(h, mi) == h * 60 + mi

\* date.weekday(): Monday = 0 .. Sunday = 6
Weekday(day) == (day + 6) % 7

Years == {2026, 2027}

\* date.year
YearOf(day) == CHOOSE y \in Years : Date(y, 1, 1) <= day /\ day <= Date(y, 12, 31)

MinutesPerDay == 24 * 60

\* utcoffset of ZoneInfo("Pacific/Auckland") on the modelled dates (NZDT)
AucklandUtcOffset == 13 * 60

\* datetime.combine(d, t, tzinfo=TZ)
combine_local_date_time(d, t) == d * MinutesPerDay + t - AucklandUtcOffset

\* dt.astimezone(TZ).date()
LocalDate(instant) == (instant + AucklandUtcOffset) \div MinutesPerDay

\* an aware datetime sent by a client: [date, time, utcoffset]
InstantOf(dt) == dt.date * MinutesPerDay + dt.time - dt.utcoffset

----------------------------------------------------------------------------
(* The worlds the model is run in: sessions, blocks, links and exclusion    *)
(* dates are administrator-managed rows that the occurrence handlers only   *)
(* read; Init draws them from the sets below.                               *)

SessionIds == {"s1", "s2"}
\* the session the administrator works on; s2 is another session of the same venue
RequestSessionIds == {"s1"}
BlockIds == {"b1", "b2"}

DayOfWeekEnum == 0 .. 6

\* the term block of the spec's scenario A (a Wednesday to a Wednesday)
BlockA == [year |-> 2026, start_date |-> Date(2026, 2, 4), end_date |-> Date(2026, 2, 18)]

BlockChoices ==
    { \* overlaps BlockA on two Wednesdays
      [year |-> 2026, start_date |-> Date(2026, 2, 11), end_date |-> Date(2026, 2, 25)],
      \* end_date before start_date
      [year |-> 2026, start_date |-> Date(2026, 2, 18), end_date |-> Date(2026, 2, 4)],
      \* filed under another year than its dates
      [year |-> 2027, start_date |-> Date(2026, 2, 9), end_date |-> Date(2026, 2, 13)] }

\* the exclusion date of the spec's scenario B
ExclusionChoices == {Date(2026, 2, 11)}

\* bounds on what the administrator does by hand
MaxManual == 2
MaxCancelled == 1

\* aware datetimes a client sends to create_occurrence
AtAuckland(d, t) == [date |-> d, time |-> t, utcoffset |-> AucklandUtcOffset]
AtUtc(d, t) == [date |-> d, time |-> t, utcoffset |-> 0]

OccurrenceCreateChoices ==
    { \* the instant of the first Wednesday candidate, given in local time ...
      [starts_at |-> AtAuckland(Date(2026, 2, 4), Time(15, 30)),
       ends_at   |-> AtAuckland(Date(2026, 2, 4), Time(17, 0)), block_id |-> None],
      \* ... and given in UTC
      [starts_at |-> AtUtc(Date(2026, 2, 4), Time(2, 30)),
       ends_at   |-> AtUtc(Date(2026, 2, 4), Time(4, 0)), block_id |-> None],
      \* a one-off on a Tuesday morning, filed under block b2
      [starts_at |-> AtAuckland(Date(2026, 2, 10), Time(10, 0)),
       ends_at   |-> AtAuckland(Date(2026, 2, 10), Time(11, 0)), block_id |-> "b2"],
      \* ends before it starts
      [starts_at |-> AtAuckland(Date(2026, 2, 10), Time(10, 0)),
       ends_at   |-> AtAuckland(Date(2026, 2, 10), Time(9, 0)), block_id |-> None] }

OccurrenceCancelChoices ==
    { [cancelled |-> TRUE, cancellation_reason |-> "Weather"],
      [cancelled |-> FALSE, cancellation_reason |-> None] }

----------------------------------------------------------------------------
VARIABLES
    sessions,    \* sessions table: session id -> [session_type, day_of_week, start_time, end_time]
    blocks,      \* session_blocks table: block id -> [year, start_date, end_date]
    links,       \* session_block_links table: set of [session_id, block_id]
    exclusions,  \* exclusion_dates table: set of [year, exclusion_date]
    occs,        \* session_occurrences table: a bag of rows (the surrogate id is not modelled)
    last,        \* the last request served and its response
    storage,     \* how many statements of a request the database serves before it fails
    now,         \* the clock: minutes since ordinal 0, 00:00 UTC
    caregivers,  \* caregivers table: caregiver id -> [name, phone]
    children,    \* children table: child id -> [caregiver_id, date_of_birth]
    signups,     \* signups table: set of [id, session_id, caregiver_id, child_id, status, withdrawn_at]
    magic_links,        \* caregiver_magic_links table: set of [token_hash, caregiver_id, expires_at, used_at]
    caregiver_sessions, \* caregiver_sessions table: set of [token_hash, caregiver_id, expires_at, revoked_at]
    consuming,   \* consume_magic_link requests that have read their link and not yet committed
    generating,  \* generate_occurrences requests in flight, each in its own transaction
    signing      \* create_signup requests that have read the session and not yet committed

\* the tables of the login routes and the requests in flight on them
authSide == <<magic_links, caregiver_sessions, consuming>>

\* the tables and the clock of the caregiver-facing routes
caregiverSide == <<now, caregivers, children, signups, authSide>>

\* the requests in flight on the admin and the signup routes
concurrent == <<generating, signing>>

vars == <<sessions, blocks, links, exclusions, occs, last, storage, caregiverSide, concurrent>>

\* the database is healthy: it serves every statement
Healthy == NoneInt

\* the n-th statement (from 0) that a request sends is the one the database fails on
Fails(n) == storage = n

\* the most statements a failing database serves in the modelled outages
MaxServed == 7

\* the row create_exclusion stores for a date
ExclusionRow(d) == [year |-> YearOf(d), exclusion_date |-> d]

\* SessionOccurrence(...); cancelled and cancellation_reason take the column defaults
SessionOccurrence(session_id, block_id, starts_at, ends_at, auto_generated) ==
    [session_id |-> session_id, block_id |-> block_id, starts_at |-> starts_at,
     ends_at |-> ends_at, auto_generated |-> auto_generated,
     cancelled |-> FALSE, cancellation_reason |-> None]

\* CheckConstraint("starts_at < ends_at")
ck_session_occurrences_time_valid(o) == o.starts_at < o.ends_at

Rows(db) == BagToSet(db)

\* number of rows of db that satisfy the predicate given as a set of rows
CountRows(db, matching) == BagCardinality([r \in matching |-> db[r]])

\* SelectAt comparing the wrong column
SelectAt_ByEnd(db, session_id, starts_at) ==
    {r \in BagToSet(db) : r.session_id = session_id /\ r.ends_at = starts_at}

\* select(SessionOccurrence.id).where(session_id == .., starts_at == ..)
SelectAt(db, session_id, starts_at) ==
    {r \in Rows(db) : r.session_id = session_id /\ r.starts_at = starts_at}

\* select(SessionBlock).join(SessionBlockLink ..).where(session_id == ..)
LinkedBlocks(session_id) == {l.block_id : l \in {k \in links : k.session_id = session_id}}

\* .order_by(SessionBlock.start_date): every order the database may return
OrderedLinkedBlocks(session_id) ==
    LET B == LinkedBlocks(session_id)
        n == Cardinality(B)
    IN  { q \in [1 .. n -> B] :
            /\ \A i, j \in 1 .. n : i # j => q[i] # q[j]
            /\ \A i, j \in 1 .. n : i < j => blocks[q[i]].start_date <= blocks[q[j]].start_date }

\* Excluded matching an exclusion by its date alone, whatever year it is filed under
Excluded_AnyYear(year) == {x.exclusion_date : x \in exclusions}

\* Excluded with the exclusion rows never filed under their year
Excluded_Unfiled(year) == {}

\* excluded_by_year.get(block.year, set())
Excluded(year) == {x.exclusion_date : x \in {e \in exclusions : e.year = year}}

\* the running totals of one expansion: the session's view of the table plus the counters
\* and the number of statements sent so far
StartAcc(db, statements) ==
    [db |-> db, created |-> 0, skipped_existing |-> 0, raised |-> None,
     statements |-> statements]

----------------------------------------------------------------------------
(* generate_occurrences                                                     *)

\* FirstCandidate without the step to the session's weekday
FirstCandidate_NoOffset(s, block) == block.start_date

\* FirstCandidate stepping back to the session's weekday instead of forward
FirstCandidate_Previous(s, block) ==
    block.start_date - ((Weekday(block.start_date) - s.day_of_week + 7) % 7)

\* day = block.start_date + timedelta(days=(int(s.day_of_week) - day.weekday() + 7) % 7)
FirstCandidate(s, block) ==
    block.start_date + ((s.day_of_week - Weekday(block.start_date) + 7) % 7)

\* InBlock with the end date left out of the range
InBlock_Exclusive(day, block) == day < block.end_date

\* while day <= block.end_date
InBlock(day, block) == day <= block.end_date

\* GenerateVisit with the existence query not seeing the rows added by this request
\* (a session without autoflush)
GenerateVisit_NoAutoflush(session_id, s, block_id, day, acc) ==
    IF day \in Excluded(blocks[block_id].year) THEN acc
    ELSE
      LET starts_at == combine_local_date_time(day, s.start_time)
          ends_at   == combine_local_date_time(day, s.end_time)
          found     == CountRows(occs, SelectAt(occs, session_id, starts_at))
          o         == SessionOccurrence(session_id, block_id, starts_at, ends_at, TRUE)
      IN  IF found > 1 THEN [acc EXCEPT !.raised = "MultipleResultsFound"]
          ELSE IF found = 1 THEN [acc EXCEPT !.skipped_existing = @ + 1]
          ELSE [acc EXCEPT !.db = @ (+) SetToBag({o}), !.created = @ + 1]

\* GenerateVisit refreshing the row it finds instead of leaving it alone
GenerateVisit_Upsert(session_id, s, block_id, day, acc) ==
    IF day \in Excluded(blocks[block_id].year) THEN acc
    ELSE
      LET starts_at == combine_local_date_time(day, s.start_time)
          ends_at   == combine_local_date_time(day, s.end_time)
          at        == SelectAt(acc.db, session_id, starts_at)
          found     == CountRows(acc.db, at)
          o         == SessionOccurrence(session_id, block_id, starts_at, ends_at, TRUE)
      IN  IF found > 1 THEN [acc EXCEPT !.raised = "MultipleResultsFound"]
          ELSE IF found = 1
               THEN [acc EXCEPT !.db = (@ (-) SetToBag(at)) (+) SetToBag({o}),
                                !.skipped_existing = @ + 1]
          ELSE [acc EXCEPT !.db = @ (+) SetToBag({o}), !.created = @ + 1]

\* GenerateVisit counting an excluded date as skipped
GenerateVisit_CountsExcluded(session_id, s, block_id, day, acc) ==
    IF day \in Excluded(blocks[block_id].year)
    THEN [acc EXCEPT !.skipped_existing = @ + 1]
    ELSE
      LET starts_at == combine_local_date_time(day, s.start_time)
          ends_at   == combine_local_date_time(day, s.end_time)
          found     == CountRows(acc.db, SelectAt(acc.db, session_id, starts_at))
          o         == SessionOccurrence(session_id, block_id, starts_at, ends_at, TRUE)
          sent      == [acc EXCEPT !.statements = @ + 1]
      IN  IF found > 1 THEN [sent EXCEPT !.raised = "MultipleResultsFound"]
          ELSE IF found = 1 THEN [sent EXCEPT !.skipped_existing = @ + 1]
          ELSE [sent EXCEPT !.db = @ (+) SetToBag({o}), !.created = @ + 1]

\* the body of the while loop for one day; the existence query, with the autoflush of
\* the row added for the day before, is one statement
GenerateVisit(session_id, s, block_id, day, acc) ==
    IF day \in Excluded(blocks[block_id].year) THEN acc
    ELSE IF Fails(acc.statements) THEN [acc EXCEPT !.raised = "DBAPIError"]
    ELSE
      LET starts_at == combine_local_date_time(day, s.start_time)
          ends_at   == combine_local_date_time(day, s.end_time)
          found     == CountRows(acc.db, SelectAt(acc.db, session_id, starts_at))
          o         == SessionOccurrence(session_id, block_id, starts_at, ends_at, TRUE)
          sent      == [acc EXCEPT !.statements = @ + 1]
      IN  IF found > 1 THEN [sent EXCEPT !.raised = "MultipleResultsFound"]
          ELSE IF found = 1 THEN [sent EXCEPT !.skipped_existing = @ + 1]
          ELSE IF ~ck_session_occurrences_time_valid(o)
               THEN [sent EXCEPT !.raised = "IntegrityError"]
          ELSE [sent EXCEPT !.db = @ (+) SetToBag({o}),
                            !.created = @ + 1]

\* while day <= block.end_date: ...; day = day + timedelta(days=7)
RECURSIVE GenerateWalk(_, _, _, _, _)
GenerateWalk(session_id, s, block_id, day, acc) ==
    IF acc.raised # None \/ ~InBlock(day, blocks[block_id]) THEN acc
    ELSE GenerateWalk(session_id, s, block_id, day + 7,
                      GenerateVisit(session_id, s, block_id, day, acc))

\* for block in blocks: ...
RECURSIVE GenerateBlocks(_, _, _, _)
GenerateBlocks(session_id, s, order, acc) ==
    IF order = <<>> \/ acc.raised # None THEN acc
    ELSE GenerateBlocks(session_id, s, Tail(order),
                        GenerateWalk(session_id, s, Head(order),
                                     FirstCandidate(s, blocks[Head(order)]), acc))

\* what a handler hands back: an exception or a response, and in db the table as the
\* request's database session sees it at that point, its uncommitted writes included
Raise(exc) == [status |-> exc, db |-> occs, deleted |-> 0, created |-> 0,
               skipped_existing |-> 0]

\* an exception raised after the request has written
RaiseAfter(exc, db) == [Raise(exc) EXCEPT !.db = db]

\* await db.flush(); return {...}
Return(acc, deleted) ==
    IF acc.raised # None THEN RaiseAfter(acc.raised, acc.db)
    ELSE IF Fails(acc.statements) THEN RaiseAfter("DBAPIError", acc.db)
    ELSE [status |-> "ok", db |-> acc.db, deleted |-> deleted, created |-> acc.created,
          skipped_existing |-> acc.skipped_existing]

\* generate_occurrences(session_id), the blocks query returning them in `order`
\* statements: 0 db.get(Session), 1 the blocks query, 2 the exclusions query, then the loop
GenerateResult(session_id, order) ==
    IF Fails(0) THEN Raise("DBAPIError")
    ELSE IF session_id \notin DOMAIN sessions THEN Raise("NotFound")
    ELSE LET s == sessions[session_id] IN
         IF s.session_type # "term" THEN Raise("Validation")
         ELSE IF s.day_of_week = NoneInt \/ s.start_time = NoneInt \/ s.end_time = NoneInt
              THEN Raise("Validation")
         ELSE IF Fails(1) THEN Raise("DBAPIError")
         ELSE IF order = <<>> THEN Raise("Validation")
         ELSE IF Fails(2) THEN Raise("DBAPIError")
         ELSE Return(GenerateBlocks(session_id, s, order, StartAcc(occs, 3)), 0)

\* Commit without the rollback
Commit_NoRollback(out) == out.db

\* Commit rolling back only on the handler's own HTTP exceptions
Commit_ExceptHttp(out) ==
    IF out.status \in {"NotFound", "Validation"} THEN occs ELSE out.db

\* get_db_session: commit when the handler returns, roll back when it raises
Commit(out) == IF out.status = "ok" THEN out.db ELSE occs

\* the request just served and its response; `again` marks a generate request that
\* directly follows a generate request for the same session that returned normally
Response(op, session_id, delete_auto_generated, out) ==
    [op |-> op, session_id |-> session_id, delete_auto_generated |-> delete_auto_generated,
     again |-> (op = "generate" /\ last.op = op /\ last.session_id = session_id
                  /\ last.status = "ok"),
     status |-> out.status, deleted |-> out.deleted, created |-> out.created,
     skippedExisting |-> out.skipped_existing]

generate_occurrences(session_id) ==
    \E order \in OrderedLinkedBlocks(session_id) :
        LET out == GenerateResult(session_id, order) IN
        /\ occs' = Commit(out)
        /\ last' = Response("generate", session_id, FALSE, out)
        /\ UNCHANGED <<concurrent, sessions, blocks, links, exclusions, storage, caregiverSide>>

----------------------------------------------------------------------------
(* regenerate_occurrences                                                   *)

\* DeleteAutoGenerated without the auto_generated filter
DeleteAutoGenerated_WholeSession(db, session_id) ==
    LET matching == {r \in BagToSet(db) : r.session_id = session_id}
    IN  [db |-> [r \in BagToSet(db) \ matching |-> db[r]],
         rowcount |-> BagCardinality([r \in matching |-> db[r]])]

\* DeleteAutoGenerated without the session_id filter
DeleteAutoGenerated_AnySession(db, session_id) ==
    LET matching == {r \in BagToSet(db) : r.auto_generated = TRUE}
    IN  [db |-> [r \in BagToSet(db) \ matching |-> db[r]],
         rowcount |-> BagCardinality([r \in matching |-> db[r]])]

\* delete(SessionOccurrence).where(session_id == .., auto_generated == True) and its rowcount
DeleteAutoGenerated(db, session_id) ==
    LET matching == {r \in Rows(db) : r.session_id = session_id /\ r.auto_generated = TRUE}
    IN  [db |-> [r \in Rows(db) \ matching |-> db[r]],
         rowcount |-> CountRows(db, matching)]

\* truth value of s.day_of_week, an IntEnum or None: None and MONDAY = 0 are false
Truthy(day_of_week) == day_of_week # NoneInt /\ day_of_week # 0

\* if s.day_of_week and day.weekday() == s.day_of_week.value and day not in exclusions
RegenerateMatches(s, block, day) ==
    /\ Truthy(s.day_of_week)
    /\ Weekday(day) = s.day_of_week
    /\ day \notin Excluded(block.year)

\* the body of the while loop for one day
RegenerateVisit(session_id, s, block_id, day, acc) ==
    IF ~RegenerateMatches(s, blocks[block_id], day) THEN acc
    ELSE IF s.start_time = NoneInt \/ s.end_time = NoneInt
         THEN [acc EXCEPT !.raised = "TypeError"]
    ELSE IF Fails(acc.statements) THEN [acc EXCEPT !.raised = "DBAPIError"]
    ELSE
      LET starts_at == combine_local_date_time(day, s.start_time)
          ends_at   == combine_local_date_time(day, s.end_time)
          found     == CountRows(acc.db, SelectAt(acc.db, session_id, starts_at))
          o         == SessionOccurrence(session_id, block_id, starts_at, ends_at, TRUE)
          sent      == [acc EXCEPT !.statements = @ + 1]
      IN  IF found > 1 THEN [sent EXCEPT !.raised = "MultipleResultsFound"]
          ELSE IF found = 1 THEN [sent EXCEPT !.skipped_existing = @ + 1]
          ELSE IF ~ck_session_occurrences_time_valid(o)
               THEN [sent EXCEPT !.raised = "IntegrityError"]
          ELSE [sent EXCEPT !.db = @ (+) SetToBag({o}),
                            !.created = @ + 1]

\* day = block.start_date; while day <= block.end_date: ...; day = day + timedelta(days=7)
RECURSIVE RegenerateWalk(_, _, _, _, _)
RegenerateWalk(session_id, s, block_id, day, acc) ==
    IF acc.raised # None \/ ~(day <= blocks[block_id].end_date) THEN acc
    ELSE RegenerateWalk(session_id, s, block_id, day + 7,
                        RegenerateVisit(session_id, s, block_id, day, acc))

\* for block in blocks: ...
RECURSIVE RegenerateBlocks(_, _, _, _)
RegenerateBlocks(session_id, s, order, acc) ==
    IF order = <<>> \/ acc.raised # None THEN acc
    ELSE RegenerateBlocks(session_id, s, Tail(order),
                          RegenerateWalk(session_id, s, Head(order),
                                         blocks[Head(order)].start_date, acc))

\* regenerate_occurrences(session_id, delete_auto_generated), the blocks query returning `order`
\* RegenerateResult without the check of the session type
RegenerateResult_AnyType(session_id, delete_auto_generated, order) ==
    IF session_id \notin DOMAIN sessions THEN Raise("NotFound")
    ELSE LET s   == sessions[session_id]
             del == IF delete_auto_generated
                    THEN DeleteAutoGenerated(occs, session_id)
                    ELSE [db |-> occs, rowcount |-> 0]
         IN  IF order = <<>> THEN RaiseAfter("Validation", del.db)
             ELSE Return(RegenerateBlocks(session_id, s, order, StartAcc(del.db, 4)),
                         del.rowcount)

\* statements: 0 db.get(Session), then the delete if asked for, the blocks query, the
\* exclusions query, then the loop
RegenerateResult(session_id, delete_auto_generated, order) ==
    IF Fails(0) THEN Raise("DBAPIError")
    ELSE IF session_id \notin DOMAIN sessions THEN Raise("NotFound")
    ELSE LET s == sessions[session_id] IN
         IF s.session_type # "term" THEN Raise("Validation")
         ELSE IF delete_auto_generated /\ Fails(1) THEN Raise("DBAPIError")
         ELSE LET del  == IF delete_auto_generated
                          THEN DeleteAutoGenerated(occs, session_id)
                          ELSE [db |-> occs, rowcount |-> 0]
                  sent == IF delete_auto_generated THEN 2 ELSE 1
              IN  IF Fails(sent) THEN RaiseAfter("DBAPIError", del.db)
                  ELSE IF order = <<>> THEN RaiseAfter("Validation", del.db)
                  ELSE IF Fails(sent + 1) THEN RaiseAfter("DBAPIError", del.db)
                  ELSE Return(RegenerateBlocks(session_id, s, order,
                                               StartAcc(del.db, sent + 2)),
                              del.rowcount)

regenerate_occurrences(session_id, delete_auto_generated) ==
    \E order \in OrderedLinkedBlocks(session_id) :
        LET out == RegenerateResult(session_id, delete_auto_generated, order) IN
        /\ occs' = Commit(out)
        /\ last' = Response("regenerate", session_id, delete_auto_generated, out)
        /\ UNCHANGED <<concurrent, sessions, blocks, links, exclusions, storage, caregiverSide>>

----------------------------------------------------------------------------
(* create_occurrence, cancel_occurrence                                     *)

\* the linked blocks whose date range holds data.starts_at.date(); the loop takes the
\* first one the unordered query returns
ContainingBlocks(session_id, data) ==
    {b \in LinkedBlocks(session_id) :
        blocks[b].start_date <= data.starts_at.date /\ data.starts_at.date <= blocks[b].end_date}

\* create_occurrence(session_id, data), the block lookup settling on `found_block`
CreateResult(session_id, data, found_block) ==
    IF session_id \notin DOMAIN sessions THEN Raise("NotFound")
    ELSE LET block_id == IF data.block_id # None THEN data.block_id ELSE found_block
             o == SessionOccurrence(session_id, block_id, InstantOf(data.starts_at),
                                    InstantOf(data.ends_at), FALSE)
         IN  IF ~ck_session_occurrences_time_valid(o) THEN Raise("IntegrityError")
             ELSE IF block_id # None /\ block_id \notin DOMAIN blocks
                  THEN Raise("IntegrityError")
             ELSE [status |-> "ok", db |-> occs (+) SetToBag({o}), deleted |-> 0,
                   created |-> 0, skipped_existing |-> 0]

ManualRows(db) == {r \in Rows(db) : r.auto_generated = FALSE}

CancelledRows(db) == {r \in Rows(db) : r.cancelled = TRUE}

create_occurrence(session_id, data) ==
    /\ CountRows(occs, {r \in ManualRows(occs) : r.session_id = session_id}) < MaxManual
    /\ \E found_block \in IF ContainingBlocks(session_id, data) = {} THEN {None}
                          ELSE ContainingBlocks(session_id, data) :
        LET out == CreateResult(session_id, data, found_block) IN
        /\ occs' = Commit(out)
        /\ last' = Response("create", session_id, FALSE, out)
        /\ UNCHANGED <<concurrent, sessions, blocks, links, exclusions, storage, caregiverSide>>

\* CancelResult taking a cancelled occurrence off the calendar
CancelResult_Remove(o, data) ==
    LET changed == [o EXCEPT !.cancelled = data.cancelled,
                             !.cancellation_reason = data.cancellation_reason]
    IN  [status |-> "ok",
         db |-> IF data.cancelled THEN occs (-) SetToBag({o})
                ELSE (occs (-) SetToBag({o})) (+) SetToBag({changed}),
         deleted |-> 0, created |-> 0, skipped_existing |-> 0]

\* cancel_occurrence on the row o (db.get found it), data = [cancelled, cancellation_reason];
\* no signup is on record here, so _notify_confirmed_signups has nobody to notify
CancelResult(o, data) ==
    LET changed == [o EXCEPT !.cancelled = data.cancelled,
                             !.cancellation_reason = data.cancellation_reason]
    IN  [status |-> "ok", db |-> (occs (-) SetToBag({o})) (+) SetToBag({changed}),
         deleted |-> 0, created |-> 0, skipped_existing |-> 0]

cancel_occurrence(o, data) ==
    /\ o \in Rows(occs)
    /\ data.cancelled /\ ~o.cancelled => CountRows(occs, CancelledRows(occs)) < MaxCancelled
    /\ LET out == CancelResult(o, data) IN
        /\ occs' = Commit(out)
        /\ last' = Response("cancel", o.session_id, FALSE, out)
        /\ UNCHANGED <<concurrent, sessions, blocks, links, exclusions, storage, caregiverSide>>

----------------------------------------------------------------------------

TermSession(day_of_week) ==
    [session_type |-> "term", day_of_week |-> day_of_week,
     start_time |-> Time(15, 30), end_time |-> Time(17, 0)]

\* what session s2 already has on the calendar: its first Wednesday, generated from
\* block b1, and a one-off added by hand at the same instant
OtherSessionOccurrences ==
    LET starts_at == combine_local_date_time(Date(2026, 2, 4), Time(15, 30))
        ends_at   == combine_local_date_time(Date(2026, 2, 4), Time(17, 0))
    IN  SetToBag({SessionOccurrence("s2", "b1", starts_at, ends_at, TRUE),
                  SessionOccurrence("s2", None, starts_at, ends_at, FALSE)})

\* no caregiver has an account yet
NoCaregivers ==
    /\ now = 0
    /\ caregivers = <<>>
    /\ children = <<>>
    /\ signups = {}
    /\ magic_links = {}
    /\ caregiver_sessions = {}
    /\ consuming = {}
    /\ generating = {}
    /\ signing = {}

NoRequest == [op |-> "none", session_id |-> None, delete_auto_generated |-> FALSE,
              again |-> FALSE,
              status |-> "ok", deleted |-> 0, created |-> 0, skippedExisting |-> 0]

Init ==
    /\ \E d \in DayOfWeekEnum :
          sessions = [i \in SessionIds |-> IF i = "s1" THEN TermSession(d) ELSE TermSession(2)]
    /\ \E b \in BlockChoices :
          blocks = [i \in BlockIds |-> IF i = "b1" THEN BlockA ELSE b]
    /\ \E B \in SUBSET BlockIds :
          \* one shape of b2 is enough where s1 is not linked to it
          /\ "b2" \notin B => blocks["b2"].start_date = Date(2026, 2, 11)
          /\ links = {[session_id |-> "s1", block_id |-> b] : b \in B}
                        \cup {[session_id |-> "s2", block_id |-> "b1"]}
    /\ \E X \in SUBSET ExclusionChoices : exclusions = {ExclusionRow(d) : d \in X}
    /\ occs = OtherSessionOccurrences
    /\ last = NoRequest
    /\ storage = Healthy
    /\ NoCaregivers

Next ==
    \/ \E session_id \in RequestSessionIds : generate_occurrences(session_id)
    \/ \E session_id \in RequestSessionIds, delete_auto_generated \in BOOLEAN :
          regenerate_occurrences(session_id, delete_auto_generated)
    \/ \E session_id \in RequestSessionIds, data \in OccurrenceCreateChoices :
          create_occurrence(session_id, data)
    \/ \E session_id \in RequestSessionIds :
          \E o \in {r \in Rows(occs) : r.session_id = session_id}, data \in OccurrenceCancelChoices :
              cancel_occurrence(o, data)

Spec == Init /\ [][Next]_vars

----------------------------------------------------------------------------
(* Sessions edited after their occurrences were generated: update_session   *)
(* has turned the term session s1 into a special one, or has taken its      *)
(* blocks away, and the rows generated before are still on the calendar.    *)
(* The administrator also sends requests for a session that was deleted.    *)

MissingSessionId == "s0"

EditedRequestIds == RequestSessionIds \cup {MissingSessionId}

SpecialSession(day_of_week) ==
    [session_type |-> "special", day_of_week |-> day_of_week,
     start_time |-> Time(15, 30), end_time |-> Time(17, 0)]

\* the rows generated for s1 while it was a Wednesday term session linked to b1
EarlierGenerated ==
    SetToBag({SessionOccurrence("s1", "b1", combine_local_date_time(Date(2026, 2, d), Time(15, 30)),
                                combine_local_date_time(Date(2026, 2, d), Time(17, 0)), TRUE) :
                 d \in {4, 11}})

InitEdited ==
    /\ \E s \in {SpecialSession(NoneInt), SpecialSession(2), TermSession(2)} :
          sessions = [i \in SessionIds |-> IF i = "s1" THEN s ELSE TermSession(2)]
    /\ \E b \in {c \in BlockChoices : c.start_date = Date(2026, 2, 11)} :
          blocks = [i \in BlockIds |-> IF i = "b1" THEN BlockA ELSE b]
    /\ \E B \in SUBSET BlockIds :
          \* the term session is the one that lost its blocks
          /\ sessions["s1"].session_type = "term" => B = {}
          /\ links = {[session_id |-> "s1", block_id |-> b] : b \in B}
                        \cup {[session_id |-> "s2", block_id |-> "b1"]}
    /\ \E X \in SUBSET ExclusionChoices : exclusions = {ExclusionRow(d) : d \in X}
    /\ occs = OtherSessionOccurrences (+) EarlierGenerated
    /\ last = NoRequest
    /\ storage = Healthy
    /\ NoCaregivers

NextEdited ==
    \/ \E session_id \in EditedRequestIds : generate_occurrences(session_id)
    \/ \E session_id \in EditedRequestIds, delete_auto_generated \in BOOLEAN :
          regenerate_occurrences(session_id, delete_auto_generated)
    \/ \E session_id \in EditedRequestIds, data \in OccurrenceCreateChoices :
          create_occurrence(session_id, data)
    \/ \E session_id \in EditedRequestIds :
          \E o \in {r \in Rows(occs) : r.session_id = session_id}, data \in OccurrenceCancelChoices :
              cancel_occurrence(o, data)

SpecEdited == InitEdited /\ [][NextEdited]_vars

----------------------------------------------------------------------------
(* Requests against a database that fails: during an outage the database    *)
(* serves the first `storage` statements of a request and fails on the next.*)

\* an outage begins
storage_fails(served) ==
    /\ storage' = served
    /\ UNCHANGED <<concurrent, sessions, blocks, links, exclusions, occs, last, caregiverSide>>

\* the outage ends
storage_recovers ==
    /\ storage # Healthy
    /\ storage' = Healthy
    /\ UNCHANGED <<concurrent, sessions, blocks, links, exclusions, occs, last, caregiverSide>>

InitFaulty ==
    /\ \E d \in {0, 2} :
          sessions = [i \in SessionIds |-> IF i = "s1" THEN TermSession(d) ELSE TermSession(2)]
    /\ \E b \in {c \in BlockChoices : c.start_date = Date(2026, 2, 11)} :
          blocks = [i \in BlockIds |-> IF i = "b1" THEN BlockA ELSE b]
    /\ \E B \in SUBSET BlockIds :
          links = {[session_id |-> "s1", block_id |-> b] : b \in B}
                     \cup {[session_id |-> "s2", block_id |-> "b1"]}
    /\ \E X \in SUBSET ExclusionChoices : exclusions = {ExclusionRow(d) : d \in X}
    /\ occs = OtherSessionOccurrences
    /\ last = NoRequest
    /\ storage = Healthy
    /\ NoCaregivers

NextFaulty ==
    \/ \E served \in 0 .. MaxServed : storage_fails(served)
    \/ storage_recovers
    \/ \E session_id \in RequestSessionIds : generate_occurrences(session_id)
    \/ \E session_id \in RequestSessionIds, delete_auto_generated \in BOOLEAN :
          regenerate_occurrences(session_id, delete_auto_generated)

SpecFaulty == InitFaulty /\ [][NextFaulty]_vars

----------------------------------------------------------------------------
(* Blocks that declare their timezone (SessionBlock.timezone): create_block *)
(* stores the IANA name the administrator gives, Pacific/Auckland when none *)
(* is given.                                                                *)

TimezoneChoices == {"Pacific/Auckland", "Australia/Sydney", "UTC"}

\* a block row with its timezone column
ZonedBlock(block, timezone) ==
    [year |-> block.year, start_date |-> block.start_date, end_date |-> block.end_date,
     timezone |-> timezone]

InitZones ==
    /\ \E d \in {2, 3} :
          sessions = [i \in SessionIds |-> IF i = "s1" THEN TermSession(d) ELSE TermSession(2)]
    /\ \E b \in {c \in BlockChoices : c.start_date = Date(2026, 2, 11)} :
          \E timezone \in TimezoneChoices :
              blocks = [i \in BlockIds |-> IF i = "b1" THEN ZonedBlock(BlockA, "Pacific/Auckland")
                                           ELSE ZonedBlock(b, timezone)]
    /\ \E B \in SUBSET BlockIds :
          links = {[session_id |-> "s1", block_id |-> b] : b \in B}
                     \cup {[session_id |-> "s2", block_id |-> "b1"]}
    /\ exclusions = {}
    /\ occs = OtherSessionOccurrences
    /\ last = NoRequest
    /\ storage = Healthy
    /\ NoCaregivers

SpecZones == InitZones /\ [][Next]_vars

----------------------------------------------------------------------------
(* generate_occurrences requests served at the same time.  Each request has *)
(* its own database session and transaction (get_db_session): a statement   *)
(* sees the rows committed when it runs plus the rows its own request has   *)
(* added (READ COMMITTED), and the request's rows reach the table when it   *)
(* returns and commits.  One step is one statement of one request.          *)

\* how many generate requests are in flight at once
MaxGenerating == 2

GenerateRequestIds == 1 .. MaxGenerating

\* the loop position after `day` of the blocks still to do: the next block is entered
\* at its first candidate when the while loop of the current one ends
RECURSIVE Advance(_, _, _)
Advance(s, order, day) ==
    IF order = <<>> THEN [order |-> <<>>, day |-> NoneInt]
    ELSE IF InBlock(day, blocks[Head(order)]) THEN [order |-> order, day |-> day]
    ELSE IF Tail(order) = <<>> THEN [order |-> <<>>, day |-> NoneInt]
    ELSE Advance(s, Tail(order), FirstCandidate(s, blocks[Head(Tail(order))]))

\* session_occurrences with a unique constraint on (session_id, starts_at)
session_occurrences_constraints_UniqueStart(db) ==
    /\ \A r \in BagToSet(db) : ck_session_occurrences_time_valid(r)
    /\ \A r \in BagToSet(db) :
          BagCardinality([q \in {x \in BagToSet(db) : x.session_id = r.session_id
                                                     /\ x.starts_at = r.starts_at} |-> db[q]]) = 1

\* SessionOccurrence.__table_args__: what the table accepts
session_occurrences_constraints(db) ==
    \A r \in Rows(db) : ck_session_occurrences_time_valid(r)

\* the request up to its loop: the session and its checks, the blocks query, the
\* exclusions query
generate_begin(request, session_id) ==
    /\ request \notin {g.request : g \in generating}
    /\ \A sooner \in GenerateRequestIds :
          sooner < request => sooner \in {g.request : g \in generating}
    /\ \E order \in OrderedLinkedBlocks(session_id) :
          LET refused ==
                  IF session_id \notin DOMAIN sessions THEN "NotFound"
                  ELSE IF sessions[session_id].session_type # "term" THEN "Validation"
                  ELSE IF \/ sessions[session_id].day_of_week = NoneInt
                          \/ sessions[session_id].start_time = NoneInt
                          \/ sessions[session_id].end_time = NoneInt THEN "Validation"
                  ELSE IF order = <<>> THEN "Validation"
                  ELSE None
          IN
          IF refused # None
          THEN /\ last' = Response("generate", session_id, FALSE, Raise(refused))
               /\ UNCHANGED generating
          ELSE LET at == Advance(sessions[session_id], order,
                                 FirstCandidate(sessions[session_id], blocks[Head(order)]))
               IN  /\ generating' = generating \cup
                         {[request |-> request, session_id |-> session_id,
                           order |-> at.order, day |-> at.day, pending |-> EmptyBag,
                           created |-> 0, skipped_existing |-> 0]}
                   /\ UNCHANGED last
    /\ UNCHANGED <<sessions, blocks, links, exclusions, occs, storage, caregiverSide, signing>>

\* one pass of the while loop of request g: the existence query sees the committed
\* rows and the request's own
generate_step(g) ==
    /\ g \in generating
    /\ g.order # <<>>
    /\ LET s    == sessions[g.session_id]
           seen == [StartAcc(occs (+) g.pending, 3) EXCEPT
                       !.created = g.created, !.skipped_existing = g.skipped_existing]
           acc  == GenerateVisit(g.session_id, s, Head(g.order), g.day, seen)
           at   == Advance(s, g.order, g.day + 7)
       IN  IF acc.raised # None
           THEN /\ generating' = generating \ {g}
                /\ last' = Response("generate", g.session_id, FALSE, Raise(acc.raised))
           ELSE /\ generating' = (generating \ {g}) \cup
                      {[g EXCEPT !.order = at.order, !.day = at.day,
                                 !.pending = acc.db (-) occs,
                                 !.created = acc.created,
                                 !.skipped_existing = acc.skipped_existing]}
                /\ UNCHANGED last
    /\ UNCHANGED <<sessions, blocks, links, exclusions, occs, storage, caregiverSide, signing>>

\* await db.flush(); return {...}, and the commit of get_db_session
generate_commit(g) ==
    /\ g \in generating
    /\ g.order = <<>>
    /\ generating' = generating \ {g}
    /\ IF session_occurrences_constraints(occs (+) g.pending)
       THEN /\ occs' = occs (+) g.pending
            /\ last' = Response("generate", g.session_id, FALSE,
                                 [status |-> "ok", db |-> occs', deleted |-> 0,
                                  created |-> g.created,
                                  skipped_existing |-> g.skipped_existing])
       ELSE /\ occs' = occs
            /\ last' = Response("generate", g.session_id, FALSE, Raise("IntegrityError"))
    /\ UNCHANGED <<sessions, blocks, links, exclusions, storage, caregiverSide, signing>>

InitRace ==
    /\ sessions = [i \in SessionIds |-> TermSession(2)]
    /\ \E b \in {c \in BlockChoices : c.start_date = Date(2026, 2, 11)} :
          blocks = [i \in BlockIds |-> IF i = "b1" THEN BlockA ELSE b]
    /\ \E B \in SUBSET BlockIds :
          links = {[session_id |-> "s1", block_id |-> b] : b \in B}
                     \cup {[session_id |-> "s2", block_id |-> "b1"]}
    /\ \E X \in SUBSET ExclusionChoices : exclusions = {ExclusionRow(d) : d \in X}
    /\ occs = OtherSessionOccurrences
    /\ last = NoRequest
    /\ storage = Healthy
    /\ NoCaregivers

NextRace ==
    \/ \E request \in GenerateRequestIds, session_id \in RequestSessionIds :
          generate_begin(request, session_id)
    \/ \E g \in generating : generate_step(g)
    \/ \E g \in generating : generate_commit(g)

SpecRace == InitRace /\ [][NextRace]_vars

----------------------------------------------------------------------------
(* Signups (backend/app/routes/caregiver.py).  The caller of a route is the *)
(* caregiver that get_current_caregiver found for the request's cookie.     *)

CaregiverIds == {"c1", "c2", "c3"}
ChildIds == {"k1", "k2", "k3"}

\* requests also name a session, a child and a signup that do not exist
MissingChildId == "k0"
MissingSignupId == 0

\* how many days the clock is moved on
MaxDays == 1

\* date.today()
Today(at) == at \div MinutesPerDay

\* age = (today - child.date_of_birth).days // 365
Age(child, at) == (Today(at) - child.date_of_birth) \div 365

\* is_age_eligible
is_age_eligible(session, child, at) ==
    /\ ~(session.age_lower # NoneInt /\ Age(child, at) < session.age_lower)
    /\ ~(session.age_upper # NoneInt /\ Age(child, at) > session.age_upper)

\* Session.confirmed_count over the session's signups
confirmed_count(table, session_id) ==
    Cardinality({g \in table : g.session_id = session_id /\ g.status = "confirmed"})

\* is_at_capacity letting one more in when the session is just full
is_at_capacity_Strict(table, session_id) ==
    confirmed_count(table, session_id) > sessions[session_id].capacity

\* Session.is_at_capacity
is_at_capacity(table, session_id) ==
    confirmed_count(table, session_id) >= sessions[session_id].capacity

\* if not is_age_eligible or session.waitlist or session.is_at_capacity(): "waitlisted"
\* else: "confirmed"
StatusFor(table, session_id, child, at) ==
    IF \/ ~is_age_eligible(sessions[session_id], child, at)
       \/ sessions[session_id].waitlist
       \/ is_at_capacity(table, session_id)
    THEN "waitlisted" ELSE "confirmed"

\* select(Signup).where(session_id == .., child_id == ..)
SignupsFor(table, session_id, child_id) ==
    {g \in table : g.session_id = session_id /\ g.child_id = child_id}

\* UniqueConstraint("session_id", "child_id")
uq_signups_session_child(table) ==
    \A g, h \in table : (g.session_id = h.session_id /\ g.child_id = h.child_id) => g = h

\* the primary key of the next row (rows are never deleted by these routes)
NextSignupId(table) == Cardinality(table) + 1

\* what a caregiver route hands back: an exception or a response with the signup's id
\* and status, and the signups table as the request leaves it
Refuse(table, exc) == [status |-> exc, id |-> MissingSignupId, signup_status |-> None, db |-> table]

Reply(table, g) == [status |-> "ok", id |-> g.id, signup_status |-> g.status, db |-> table]

\* create_signup(session_id, data) called by caregiver_id at the instant `at`
CreateSignup(table, at, caregiver_id, session_id, child_id) ==
    IF caregivers[caregiver_id].name = None \/ caregivers[caregiver_id].phone = None
    THEN Refuse(table, "Validation")
    ELSE IF session_id \notin DOMAIN sessions THEN Refuse(table, "NotFound")
    ELSE IF child_id \notin DOMAIN children THEN Refuse(table, "NotFound")
    ELSE IF children[child_id].caregiver_id # caregiver_id THEN Refuse(table, "NotFound")
    ELSE
      LET child    == children[child_id]
          existing == SignupsFor(table, session_id, child_id)
          status   == StatusFor(table, session_id, child, at)
      IN  IF \E g \in existing : g.status = "withdrawn"
          THEN \* re-activate the withdrawn signup
               LET g == CHOOSE g \in existing : g.status = "withdrawn"
                   h == [g EXCEPT !.status = status, !.withdrawn_at = NoneInt]
               IN  Reply((table \ {g}) \cup {h}, h)
          ELSE LET g == [id |-> NextSignupId(table), session_id |-> session_id,
                         caregiver_id |-> caregiver_id, child_id |-> child_id,
                         status |-> status, withdrawn_at |-> NoneInt]
               IN  \* db.add(signup); await db.flush()
                   IF ~uq_signups_session_child(table \cup {g})
                   THEN Refuse(table, "IntegrityError")
                   ELSE Reply(table \cup {g}, g)

\* WithdrawSignup stamping withdrawn_at on every call
WithdrawSignup_Restamp(table, at, caregiver_id, signup_id) ==
    IF ~\E g \in table : g.id = signup_id /\ g.caregiver_id = caregiver_id
    THEN Refuse(table, "NotFound")
    ELSE LET g == CHOOSE g \in table : g.id = signup_id
             h == [g EXCEPT !.status = "withdrawn", !.withdrawn_at = at]
         IN  Reply((table \ {g}) \cup {h}, h)

\* withdraw_signup(signup_id) called by caregiver_id at the instant `at`
WithdrawSignup(table, at, caregiver_id, signup_id) ==
    IF ~\E g \in table : g.id = signup_id /\ g.caregiver_id = caregiver_id
    THEN Refuse(table, "NotFound")
    ELSE LET g == CHOOSE g \in table : g.id = signup_id IN
         IF g.status # "withdrawn"
         THEN LET h == [g EXCEPT !.status = "withdrawn", !.withdrawn_at = at]
              IN  Reply((table \ {g}) \cup {h}, h)
         ELSE Reply(table, g)

\* the request just served and its response; `again` marks a withdraw request that
\* directly follows a withdraw request for the same signup that returned normally
SignupResponse(op, caregiver_id, session_id, child_id, signup_id, out) ==
    [op |-> op, caregiver_id |-> caregiver_id, session_id |-> session_id,
     child_id |-> child_id, signup_id |-> signup_id,
     again |-> (op = "withdraw_signup" /\ last.op = op /\ last.signup_id = signup_id
                  /\ last.status = "ok"),
     status |-> out.status, id |-> out.id, signup_status |-> out.signup_status]

create_signup(caregiver_id, session_id, data) ==
    LET out == CreateSignup(signups, now, caregiver_id, session_id, data.child_id) IN
    /\ signups' = out.db
    /\ last' = SignupResponse("create_signup", caregiver_id, session_id, data.child_id,
                              MissingSignupId, out)
    /\ UNCHANGED <<concurrent, sessions, blocks, links, exclusions, occs, storage, now, caregivers, children,
                   authSide>>

withdraw_signup(caregiver_id, signup_id) ==
    LET out == WithdrawSignup(signups, now, caregiver_id, signup_id) IN
    /\ signups' = out.db
    /\ last' = SignupResponse("withdraw_signup", caregiver_id, None, None, signup_id, out)
    /\ UNCHANGED <<concurrent, sessions, blocks, links, exclusions, occs, storage, now, caregivers, children,
                   authSide>>

\* a day passes
next_day ==
    /\ Today(now) < Date(2026, 2, 4) + MaxDays
    /\ now' = now + MinutesPerDay
    /\ UNCHANGED <<concurrent, sessions, blocks, links, exclusions, occs, storage, last,
                   caregivers, children, signups, authSide>>

\* a session as caregivers see it: the age range, the waitlist switch and the capacity
OfferedSession(waitlist, capacity) ==
    [session_type |-> "term", day_of_week |-> 2,
     start_time |-> Time(15, 30), end_time |-> Time(17, 0),
     age_lower |-> 8, age_upper |-> 12, waitlist |-> waitlist, capacity |-> capacity]

\* c3 has not completed the profile
CaregiverRows ==
    [c \in CaregiverIds |->
        [name |-> c, phone |-> IF c = "c3" THEN None ELSE "021"]]

\* k1 and k2 are ten and nine years old, k3 is thirteen
ChildRows ==
    [k \in ChildIds |->
        CASE k = "k1" -> [caregiver_id |-> "c1", date_of_birth |-> Date(2015, 6, 1)]
          [] k = "k2" -> [caregiver_id |-> "c2", date_of_birth |-> Date(2016, 6, 1)]
          [] k = "k3" -> [caregiver_id |-> "c1", date_of_birth |-> Date(2012, 6, 1)]]

\* who asks for what: each caregiver for their own children, c1 also for somebody
\* else's child, for a child and for a session that do not exist
SignupRequestChoices ==
    { [caregiver_id |-> "c1", session_id |-> "s1", child_id |-> "k1"],
      [caregiver_id |-> "c2", session_id |-> "s1", child_id |-> "k2"],
      [caregiver_id |-> "c1", session_id |-> "s1", child_id |-> "k3"],
      [caregiver_id |-> "c1", session_id |-> "s1", child_id |-> "k2"],
      [caregiver_id |-> "c1", session_id |-> "s1", child_id |-> MissingChildId],
      [caregiver_id |-> "c1", session_id |-> MissingSessionId, child_id |-> "k1"],
      [caregiver_id |-> "c3", session_id |-> "s1", child_id |-> "k1"] }

NoSignupRequest ==
    [op |-> "none", caregiver_id |-> None, session_id |-> None, child_id |-> None,
     signup_id |-> MissingSignupId, again |-> FALSE,
     status |-> "ok", id |-> MissingSignupId, signup_status |-> None]

InitSignup ==
    /\ \E waitlist \in BOOLEAN :
          sessions = [i \in {"s1"} |-> OfferedSession(waitlist, 1)]
    /\ blocks = <<>>
    /\ links = {}
    /\ exclusions = {}
    /\ occs = EmptyBag
    /\ storage = Healthy
    /\ now = InstantOf(AtUtc(Date(2026, 2, 4), Time(9, 0)))
    /\ caregivers = CaregiverRows
    /\ children = ChildRows
    /\ signups = {}
    /\ magic_links = {}
    /\ caregiver_sessions = {}
    /\ consuming = {}
    /\ generating = {}
    /\ signing = {}
    /\ last = NoSignupRequest

NextSignup ==
    \/ \E r \in SignupRequestChoices :
          create_signup(r.caregiver_id, r.session_id, [child_id |-> r.child_id])
    \/ \E caregiver_id \in {"c1", "c2"} :
          \E signup_id \in {g.id : g \in signups} \cup {MissingSignupId} :
              withdraw_signup(caregiver_id, signup_id)
    \/ next_day

SpecSignup == InitSignup /\ [][NextSignup]_vars

----------------------------------------------------------------------------
(* set_signup_status (backend/app/routes/admin.py): the administrator sets   *)
(* the status of a signup.  The notifications queued after the write are     *)
(* not part of the model.                                                    *)

\* SignupStatusUpdate.status
SignupStatusChoices == {"confirmed", "waitlisted", "withdrawn"}

\* SetSignupStatus leaving withdrawn_at as it finds it when the status is not withdrawn
SetSignupStatus_KeepStamp(table, at, signup_id, status) ==
    IF ~\E g \in table : g.id = signup_id THEN Refuse(table, "NotFound")
    ELSE LET g == CHOOSE g \in table : g.id = signup_id
             h == [g EXCEPT !.status = status,
                            !.withdrawn_at = IF status = "withdrawn" THEN at ELSE @]
         IN  Reply((table \ {g}) \cup {h}, h)

\* set_signup_status(signup_id, data) at the instant `at`
SetSignupStatus(table, at, signup_id, status) ==
    IF ~\E g \in table : g.id = signup_id THEN Refuse(table, "NotFound")
    ELSE LET g == CHOOSE g \in table : g.id = signup_id
             h == [g EXCEPT !.status = status,
                            !.withdrawn_at = IF status = "withdrawn" THEN at ELSE NoneInt]
         IN  Reply((table \ {g}) \cup {h}, h)

set_signup_status(signup_id, data) ==
    LET out == SetSignupStatus(signups, now, signup_id, data.status) IN
    /\ signups' = out.db
    /\ last' = SignupResponse("set_signup_status", None, None, None, signup_id, out)
    /\ UNCHANGED <<concurrent, sessions, blocks, links, exclusions, occs, storage, now,
                   caregivers, children, authSide>>

\* the caregivers' requests for the two children of the right age
OwnChildRequests == {r \in SignupRequestChoices : r.child_id \in {"k1", "k2"}
                                                  /\ r.session_id = "s1"
                                                  /\ r.caregiver_id \in {"c1", "c2"}}

NextSignupAdmin ==
    \/ \E r \in OwnChildRequests :
          create_signup(r.caregiver_id, r.session_id, [child_id |-> r.child_id])
    \/ \E caregiver_id \in {"c1", "c2"} :
          \E signup_id \in {g.id : g \in signups} \cup {MissingSignupId} :
              withdraw_signup(caregiver_id, signup_id)
    \/ \E signup_id \in {g.id : g \in signups} \cup {MissingSignupId} :
          \E status \in SignupStatusChoices :
              set_signup_status(signup_id, [status |-> status])
    \/ next_day

SpecSignupAdmin == InitSignup /\ [][NextSignupAdmin]_vars

----------------------------------------------------------------------------
(* create_signup requests served at the same time.  A request reads the     *)
(* session with its signups, the child and the existing signup, decides the *)
(* status, and its insert or update reaches the table when the request      *)
(* commits; no statement of it locks the session or its signups.            *)

\* how many create_signup requests are in flight at once
MaxSigning == 2

\* create_signup up to its write: the reads and the decision; a request that raises
\* answers at once
create_signup_select(caregiver_id, session_id, data) ==
    /\ Cardinality(signing) < MaxSigning
    /\ LET out     == CreateSignup(signups, now, caregiver_id, session_id, data.child_id)
           written == out.db \ signups
       IN  IF out.status # "ok"
           THEN /\ last' = SignupResponse("create_signup", caregiver_id, session_id,
                                          data.child_id, MissingSignupId, out)
                /\ UNCHANGED signing
           ELSE /\ \E g \in written :
                      signing' = signing \cup
                          {[caregiver_id |-> caregiver_id, session_id |-> session_id,
                            child_id |-> data.child_id,
                            existing |-> \E h \in signups : h.id = g.id,
                            signup |-> g]}
                /\ UNCHANGED last
    /\ UNCHANGED <<generating, sessions, blocks, links, exclusions, occs, storage, signups,
                   now, caregivers, children, authSide>>

\* the flush and the commit of the request r: the UPDATE of the re-activated row by its
\* primary key, or the INSERT of the new row under the table's unique constraint
create_signup_commit(r) ==
    /\ r \in signing
    /\ signing' = signing \ {r}
    /\ LET g   == IF r.existing THEN r.signup
                  ELSE [r.signup EXCEPT !.id = NextSignupId(signups)]
           db  == {h \in signups : h.id # g.id} \cup {g}
           out == IF uq_signups_session_child(db) THEN Reply(db, g)
                  ELSE Refuse(signups, "IntegrityError")
       IN  /\ signups' = out.db
           /\ last' = SignupResponse("create_signup", r.caregiver_id, r.session_id,
                                     r.child_id, MissingSignupId, out)
    /\ UNCHANGED <<generating, sessions, blocks, links, exclusions, occs, storage,
                   now, caregivers, children, authSide>>

NextSignupRace ==
    \/ \E r \in SignupRequestChoices :
          create_signup_select(r.caregiver_id, r.session_id, [child_id |-> r.child_id])
    \/ \E r \in signing : create_signup_commit(r)
    \/ \E caregiver_id \in {"c1", "c2"} :
          \E signup_id \in {g.id : g \in signups} \cup {MissingSignupId} :
              withdraw_signup(caregiver_id, signup_id)

SpecSignupRace == InitSignup /\ [][NextSignupRace]_vars

----------------------------------------------------------------------------
(* delete_session.  db.delete(s) deletes the session's occurrences and block *)
(* links with it (cascade="all, delete-orphan"); Session.signups carries no  *)
(* delete cascade, so the unit of work detaches the loaded signups by        *)
(* setting their session_id to NULL, which the column does not allow.        *)

\* Signup.session_id: nullable=False
signups_session_id_not_null(table) == \A g \in table : g.session_id # None

\* the tables after the flush of db.delete(s)
DeleteSession(session_id) ==
    [sessions |-> [i \in DOMAIN sessions \ {session_id} |-> sessions[i]],
     links    |-> {l \in links : l.session_id # session_id},
     occs     |-> LET gone == {r \in Rows(occs) : r.session_id = session_id}
                  IN  [r \in Rows(occs) \ gone |-> occs[r]],
     signups  |-> {IF g.session_id = session_id THEN [g EXCEPT !.session_id = None] ELSE g :
                      g \in signups}]

\* delete_session(session_id)
delete_session(session_id) ==
    LET after == DeleteSession(session_id)
        status == IF session_id \notin DOMAIN sessions THEN "NotFound"
                  ELSE IF ~signups_session_id_not_null(after.signups) THEN "IntegrityError"
                  ELSE "ok"
    IN  /\ sessions' = IF status = "ok" THEN after.sessions ELSE sessions
        /\ links' = IF status = "ok" THEN after.links ELSE links
        /\ occs' = IF status = "ok" THEN after.occs ELSE occs
        /\ signups' = IF status = "ok" THEN after.signups ELSE signups
        /\ last' = [NoSignupRequest EXCEPT !.op = "delete_session", !.session_id = session_id,
                                           !.status = status]
        /\ UNCHANGED <<concurrent, blocks, exclusions, storage, now, caregivers, children,
                       authSide>>

InitDelete ==
    /\ \E waitlist \in BOOLEAN :
          sessions = [i \in {"s1"} |-> OfferedSession(waitlist, 1)]
    /\ blocks = [i \in BlockIds |-> IF i = "b1" THEN BlockA
                                   ELSE [year |-> 2026, start_date |-> Date(2026, 2, 11),
                                         end_date |-> Date(2026, 2, 25)]]
    /\ \E B \in SUBSET BlockIds : links = {[session_id |-> "s1", block_id |-> b] : b \in B}
    /\ exclusions = {}
    /\ \E generated \in {EmptyBag, EarlierGenerated} : occs = generated
    /\ storage = Healthy
    /\ now = InstantOf(AtUtc(Date(2026, 2, 4), Time(9, 0)))
    /\ caregivers = CaregiverRows
    /\ children = ChildRows
    /\ signups = {}
    /\ magic_links = {}
    /\ caregiver_sessions = {}
    /\ consuming = {}
    /\ generating = {}
    /\ signing = {}
    /\ last = NoSignupRequest

NextDelete ==
    \/ \E r \in SignupRequestChoices :
          create_signup(r.caregiver_id, r.session_id, [child_id |-> r.child_id])
    \/ \E caregiver_id \in {"c1", "c2"} :
          \E signup_id \in {g.id : g \in signups} \cup {MissingSignupId} :
              withdraw_signup(caregiver_id, signup_id)
    \/ \E session_id \in {"s1", MissingSessionId} : delete_session(session_id)

SpecDelete == InitDelete /\ [][NextDelete]_vars

----------------------------------------------------------------------------
(* Caregiver login (backend/app/routes/auth.py, backend/app/auth.py).  Each *)
(* request runs in its own transaction: consume_magic_link reads its link   *)
(* in one step and writes and commits in a later one, so that requests      *)
(* interleave as the database lets them (no row is locked by the read).     *)

\* settings.magic_link_ttl_minutes
magic_link_ttl_minutes == 15

\* settings.caregiver_session_ttl_days
caregiver_session_ttl_days == 30

\* a raw token is <<kind, serial>>: new_token() of a magic link, new_token() of a
\* session, a token nobody issued, and the request without cookie
LinkToken(n) == <<"link", n>>
SessionToken(n) == <<"session", n>>
ForgedToken == <<"forged", 0>>
NoCookie == <<"none", 0>>

\* _hash_token: a digest of secret | token, taken as free of collisions
hash_token(token) == <<"sha256", token[1], token[2]>>

\* how many magic links are requested, and how many consume requests find a usable link
MaxLinks == 1
MaxConsuming == 2

ConsumeRequestIds == 1 .. MaxConsuming

\* the instants the clock is read at: the start, twenty minutes later (a magic link
\* requested at the start has expired by then) and a session lifetime after that
ClockChoices ==
    {InstantOf(AtUtc(Date(2026, 2, 4), Time(9, 0))) + d :
        d \in {0, 20, 20 + caregiver_session_ttl_days * MinutesPerDay}}

\* magic_link_expires_at()
magic_link_expires_at(at) == at + magic_link_ttl_minutes

\* session_expires_at()
session_expires_at(at) == at + caregiver_session_ttl_days * MinutesPerDay

\* the e-mail addresses a magic link is requested for: a caregiver on file and a new one
EmailChoices == {"c1", "c4"}

\* request_magic_link(data): the caregiver is found or created, and a link with a new
\* token is stored and mailed whether or not an unexpired one exists
request_magic_link(email) ==
    /\ caregivers' = IF email \in DOMAIN caregivers THEN caregivers
                     ELSE [c \in DOMAIN caregivers \cup {email} |->
                              IF c = email THEN [name |-> None, phone |-> None]
                              ELSE caregivers[c]]
    /\ magic_links' = magic_links \cup
          {[token_hash |-> hash_token(LinkToken(Cardinality(magic_links) + 1)),
            caregiver_id |-> email,
            expires_at |-> magic_link_expires_at(now), used_at |-> NoneInt]}
    /\ last' = [op |-> "request_magic_link", token |-> NoCookie, status |-> "ok"]
    /\ UNCHANGED <<concurrent, sessions, blocks, links, exclusions, occs, storage, now, children, signups,
                   caregiver_sessions, consuming>>

\* select(CaregiverMagicLink).where(token_hash == .., used_at.is_(None), expires_at > now)
UsableLinks(table, at, token) ==
    {l \in table : l.token_hash = hash_token(token) /\ l.used_at = NoneInt /\ l.expires_at > at}

\* consume_magic_link(token) up to the point where the link has been read: without a
\* usable link the request answers 400, with one it goes on
consume_magic_link_select(request, token) ==
    /\ request = Cardinality(caregiver_sessions) + Cardinality(consuming) + 1
    /\ IF UsableLinks(magic_links, now, token) = {}
       THEN /\ last' = [op |-> "consume_magic_link", token |-> token, status |-> "BadRequest"]
            /\ UNCHANGED consuming
       ELSE /\ \E l \in UsableLinks(magic_links, now, token) :
                  consuming' = consuming \cup
                      {[request |-> request, token |-> token, link |-> l.token_hash,
                        caregiver_id |-> l.caregiver_id, now |-> now]}
            /\ UNCHANGED last
    /\ UNCHANGED <<concurrent, sessions, blocks, links, exclusions, occs, storage, now, caregivers, children,
                   signups, magic_links, caregiver_sessions>>

\* the rest of consume_magic_link: link.used_at = now, a CaregiverSession with a new
\* token is added, the flush updates the link by its primary key, and the request's
\* transaction commits
consume_magic_link_commit(c) ==
    /\ c \in consuming
    /\ magic_links' = {IF l.token_hash = c.link THEN [l EXCEPT !.used_at = c.now] ELSE l :
                          l \in magic_links}
    /\ caregiver_sessions' = caregiver_sessions \cup
          {[token_hash |-> hash_token(SessionToken(Cardinality(caregiver_sessions) + 1)),
            caregiver_id |-> c.caregiver_id,
            expires_at |-> session_expires_at(now), revoked_at |-> NoneInt]}
    /\ consuming' = consuming \ {c}
    /\ last' = [op |-> "consume_magic_link", token |-> c.token, status |-> "Found"]
    /\ UNCHANGED <<concurrent, sessions, blocks, links, exclusions, occs, storage, now, caregivers, children,
                   signups>>

\* get_current_caregiver accepting a revoked session
get_current_caregiver_Revoked(table, at, raw) ==
    IF raw = NoCookie THEN None
    ELSE LET found == {s \in table : s.token_hash = hash_token(raw) /\ s.expires_at > at}
         IN  IF found = {} THEN None
             ELSE (CHOOSE s \in found : TRUE).caregiver_id

\* get_current_caregiver(request, db): the caregiver of the cookie's session, or None
\* where it raises NotAuthorizedException
get_current_caregiver(table, at, raw) ==
    IF raw = NoCookie THEN None
    ELSE LET found == {s \in table : /\ s.token_hash = hash_token(raw)
                                     /\ s.revoked_at = NoneInt
                                     /\ s.expires_at > at}
         IN  IF found = {} THEN None
             ELSE LET caregiver_id == (CHOOSE s \in found : TRUE).caregiver_id
                  IN  IF caregiver_id \in DOMAIN caregivers THEN caregiver_id ELSE None

\* a route behind get_current_caregiver, GET /api/v1/me
me(raw) ==
    /\ last' = [op |-> "me", token |-> raw,
                status |-> IF get_current_caregiver(caregiver_sessions, now, raw) = None
                           THEN "NotAuthorized" ELSE "ok"]
    /\ UNCHANGED <<concurrent, sessions, blocks, links, exclusions, occs, storage, caregiverSide>>

\* the caregiver_sessions table after logout with the cookie raw
Logout(table, at, raw) ==
    IF raw = NoCookie THEN table
    ELSE {IF s.token_hash = hash_token(raw) /\ s.revoked_at = NoneInt
          THEN [s EXCEPT !.revoked_at = at] ELSE s : s \in table}

logout(raw) ==
    /\ caregiver_sessions' = Logout(caregiver_sessions, now, raw)
    /\ last' = [op |-> "logout", token |-> raw, status |-> "ok"]
    /\ UNCHANGED <<concurrent, sessions, blocks, links, exclusions, occs, storage, now, caregivers, children,
                   signups, magic_links, consuming>>

\* time passes
tick ==
    /\ \E at \in ClockChoices : at > now /\ now' = at
    /\ UNCHANGED <<concurrent, sessions, blocks, links, exclusions, occs, storage, last,
                   caregivers, children, signups, authSide>>

\* the tokens a client can present to consume_magic_link: those mailed so far, and a guess
MailedTokens == {LinkToken(n) : n \in 1 .. Cardinality(magic_links)} \cup {ForgedToken}

\* the cookies a client can present: those set so far, a guess, and none
Cookies ==
    {SessionToken(n) : n \in 1 .. Cardinality(caregiver_sessions)} \cup {ForgedToken, NoCookie}

InitAuth ==
    /\ sessions = <<>>
    /\ blocks = <<>>
    /\ links = {}
    /\ exclusions = {}
    /\ occs = EmptyBag
    /\ storage = Healthy
    /\ now = InstantOf(AtUtc(Date(2026, 2, 4), Time(9, 0)))
    /\ caregivers = CaregiverRows
    /\ children = ChildRows
    /\ signups = {}
    /\ magic_links = {}
    /\ caregiver_sessions = {}
    /\ consuming = {}
    /\ generating = {}
    /\ signing = {}
    /\ last = [op |-> "none", token |-> NoCookie, status |-> "ok"]

NextAuth ==
    \/ Cardinality(magic_links) < MaxLinks /\ \E email \in EmailChoices : request_magic_link(email)
    \/ \E request \in ConsumeRequestIds, token \in MailedTokens :
          consume_magic_link_select(request, token)
    \/ \E c \in consuming : consume_magic_link_commit(c)
    \/ \E raw \in Cookies : me(raw)
    \/ \E raw \in Cookies : logout(raw)
    \/ tick

SpecAuth == InitAuth /\ [][NextAuth]_vars

\* how many magic links are requested where the same caregiver asks again
MaxRequests == 2

\* the login flow with repeated requests: links are requested, time passes, links are used
NextThrottle ==
    \/ Cardinality(magic_links) < MaxRequests /\ \E email \in EmailChoices : request_magic_link(email)
    \/ \E request \in ConsumeRequestIds, token \in MailedTokens :
          consume_magic_link_select(request, token)
    \/ \E c \in consuming : consume_magic_link_commit(c)
    \/ tick

SpecThrottle == InitAuth /\ [][NextThrottle]_vars

----------------------------------------------------------------------------
(* Properties                                                               *)

\* the rows of one session
OccurrencesOf(db, session_id) == {r \in Rows(db) : r.session_id = session_id}

\* a generate request for the session of the request before it, both returning normally
RepeatedGenerate ==
    /\ last.op = "generate" /\ last.status = "ok"
    /\ last'.op = "generate" /\ last'.session_id = last.session_id

\* C1 as claimed: the second of two successive generate calls returns created = 0 and
\* skippedExisting equal to the created count of the first
C1_SecondSkipsWhatFirstCreated ==
    [][RepeatedGenerate =>
          /\ last'.status = "ok"
          /\ last'.created = 0
          /\ last'.skippedExisting = last.created]_vars

\* C1 as amended: the second of two successive generate calls returns created = 0 and
\* skippedExisting equal to created + skippedExisting of the first, i.e. it skips every
\* candidate the first call either created or found
C1_SecondSkipsAllCandidates ==
    [][RepeatedGenerate =>
          /\ last'.status = "ok"
          /\ last'.created = 0
          /\ last'.skippedExisting = last.created + last.skippedExisting]_vars

\* a second generate call has returned, for a session with two linked blocks sharing dates
C1_Witness ==
    /\ last.op = "generate" /\ last.again /\ last.status = "ok"
    /\ last.created = 0 /\ last.skippedExisting = 6
    /\ LinkedBlocks(last.session_id) = BlockIds

\* the generated rows of a session
GeneratedOf(db, session_id) == {r \in OccurrencesOf(db, session_id) : r.auto_generated}

\* C2: no two generated occurrences of a session share the same starts_at
C2_NoDuplicateGenerated ==
    \A r \in Rows(occs) :
        r.auto_generated =>
            CountRows(occs, {q \in GeneratedOf(occs, r.session_id) : q.starts_at = r.starts_at}) = 1

\* a destructive regenerate over two blocks sharing two Wednesdays: four rows deleted,
\* four created, the two shared dates skipped for the second block
C2_Witness ==
    /\ last.op = "regenerate" /\ last.delete_auto_generated /\ last.status = "ok"
    /\ last.deleted = 4 /\ last.created = 4 /\ last.skippedExisting = 2
    /\ LinkedBlocks(last.session_id) = BlockIds

\* the dates on which generation owes the session an occurrence in a block
QualifyingDates(s, block) ==
    {d \in block.start_date .. block.end_date :
        /\ Weekday(d) = s.day_of_week
        /\ ~\E x \in exclusions : x.year = block.year /\ x.exclusion_date = d}

\* C3: after a generate call that returned counts, every linked block has an occurrence
\* of the session on each of its qualifying dates, at the session's start time
C3_GenerateComplete ==
    (last.op = "generate" /\ last.status = "ok") =>
        \A b \in LinkedBlocks(last.session_id) :
            \A d \in QualifyingDates(sessions[last.session_id], blocks[b]) :
                \E r \in OccurrencesOf(occs, last.session_id) :
                    r.starts_at = combine_local_date_time(d, sessions[last.session_id].start_time)

\* scenario A: a Wednesday session over 2026-02-04 .. 2026-02-18, no exclusions, has
\* exactly the three Wednesdays after generate
C3_Witness ==
    /\ last.op = "generate" /\ last.status = "ok" /\ last.created = 3
    /\ sessions[last.session_id].day_of_week = 2
    /\ LinkedBlocks(last.session_id) = {"b1"}
    /\ exclusions = {}
    /\ {r.starts_at : r \in OccurrencesOf(occs, last.session_id)} =
          {combine_local_date_time(Date(2026, 2, d), Time(15, 30)) : d \in {4, 11, 18}}

\* C4: no generated occurrence starts on a date that is an exclusion date registered for
\* the year of the block it was generated for
C4_NoGeneratedOnExclusion ==
    \A r \in Rows(occs) :
        r.auto_generated =>
            ~\E x \in exclusions :
                /\ x.year = blocks[r.block_id].year
                /\ x.exclusion_date = LocalDate(r.starts_at)

\* scenario B: the Wednesday session over 2026-02-04 .. 2026-02-18 with 2026-02-11
\* excluded has exactly 2026-02-04 and 2026-02-18 after generate
C4_Witness ==
    /\ last.op = "generate" /\ last.status = "ok" /\ last.created = 2
    /\ sessions[last.session_id].day_of_week = 2
    /\ LinkedBlocks(last.session_id) = {"b1"}
    /\ exclusions = {ExclusionRow(Date(2026, 2, 11))}
    /\ {LocalDate(r.starts_at) : r \in OccurrencesOf(occs, last.session_id)} =
          {Date(2026, 2, 4), Date(2026, 2, 18)}

\* C5: every generated occurrence starts on the session's day of week
C5_GeneratedOnSessionWeekday ==
    \A r \in Rows(occs) :
        r.auto_generated =>
            Weekday(LocalDate(r.starts_at)) = sessions[r.session_id].day_of_week

\* a Sunday session generated from blocks that start on a Wednesday
C5_Witness ==
    /\ last.op = "generate" /\ last.status = "ok" /\ last.created > 0
    /\ sessions[last.session_id].day_of_week = 6
    /\ \A b \in LinkedBlocks(last.session_id) : Weekday(blocks[b].start_date) = 2
    /\ \E r \in GeneratedOf(occs, last.session_id) : Weekday(LocalDate(r.starts_at)) = 6

\* a block that has no date on the session's day of week, or ends before it starts
BarrenBlock(s, block) ==
    \/ block.end_date < block.start_date
    \/ ~\E d \in block.start_date .. block.end_date : Weekday(d) = s.day_of_week

\* C6: every generated occurrence carries a block linked to its session and starts on a
\* date inside that block's range, ends included; a barren block has no occurrence
C6_GeneratedInsideBlock ==
    /\ \A r \in Rows(occs) :
          r.auto_generated =>
              /\ r.block_id \in LinkedBlocks(r.session_id)
              /\ blocks[r.block_id].start_date <= LocalDate(r.starts_at)
              /\ LocalDate(r.starts_at) <= blocks[r.block_id].end_date
    /\ \A i \in SessionIds, b \in BlockIds :
          BarrenBlock(sessions[i], blocks[b]) =>
              ~\E r \in GeneratedOf(occs, i) : r.block_id = b

\* generate has filled a block up to its last day while a second linked block, which
\* ends before it starts, got nothing
C6_Witness ==
    /\ last.op = "generate" /\ last.status = "ok" /\ last.created = 3
    /\ LinkedBlocks(last.session_id) = BlockIds
    /\ blocks["b2"].end_date < blocks["b2"].start_date
    /\ \E r \in GeneratedOf(occs, last.session_id) :
          r.block_id = "b1" /\ LocalDate(r.starts_at) = blocks["b1"].end_date
    /\ \E r \in GeneratedOf(occs, last.session_id) :
          r.block_id = "b1" /\ LocalDate(r.starts_at) = blocks["b1"].start_date

\* the rows of db in the given set, with their multiplicities
Restrict(db, rows) == [r \in rows \cap Rows(db) |-> db[r]]

\* the table a generate request leaves, for each order the blocks query may return
AfterGenerate(session_id) ==
    {Commit(GenerateResult(session_id, order)) : order \in OrderedLinkedBlocks(session_id)}

\* the table a regenerate request leaves
AfterRegenerate(session_id, delete_auto_generated) ==
    {Commit(RegenerateResult(session_id, delete_auto_generated, order)) :
        order \in OrderedLinkedBlocks(session_id)}

\* C7: whatever the table holds, a generate or regenerate request (destructive or not)
\* leaves every manually created row in place with all its fields as they were
C7_ManualPreserved ==
    \A i \in RequestSessionIds :
        \A db \in AfterGenerate(i) \cup AfterRegenerate(i, TRUE) \cup AfterRegenerate(i, FALSE) :
            Restrict(db, ManualRows(db)) = Restrict(occs, ManualRows(occs))

\* a destructive regenerate has deleted and recreated the generated rows of a session
\* that also has a cancelled one-off, which is still there
C7_Witness ==
    /\ last.op = "regenerate" /\ last.delete_auto_generated /\ last.status = "ok"
    /\ last.deleted > 0 /\ last.created > 0
    /\ \E r \in ManualRows(occs) :
          r.session_id = last.session_id /\ r.cancelled /\ r.block_id = "b2"

\* C8: a regenerate request that returns counts reports deleted = the number of generated
\* rows the session had before the request when delete_auto_generated is set, and
\* deleted = 0 with nothing removed when it is not; rows of other sessions stay as they are
C8_DeletedCount ==
    \A i \in RequestSessionIds, del \in BOOLEAN :
        \A order \in OrderedLinkedBlocks(i) :
            LET out == RegenerateResult(i, del, order) IN
            out.status = "ok" =>
                /\ out.deleted = IF del THEN CountRows(occs, GeneratedOf(occs, i)) ELSE 0
                /\ ~del => occs \sqsubseteq out.db
                /\ Restrict(out.db, Rows(out.db) \ OccurrencesOf(out.db, i))
                      = Restrict(occs, Rows(occs) \ OccurrencesOf(occs, i))

\* a destructive regenerate has reported the three generated rows the session had, and
\* the generated row of the other session is still on the calendar
C8_Witness ==
    /\ last.op = "regenerate" /\ last.delete_auto_generated /\ last.status = "ok"
    /\ last.deleted = 3 /\ last.created = 3
    /\ GeneratedOf(occs, "s2") # {}
    /\ last.session_id # "s2"

\* C9: a generate request leaves every row the table held before it, unchanged
C9_GenerateAdditive ==
    \A i \in RequestSessionIds :
        \A db \in AfterGenerate(i) : occs \sqsubseteq db

\* generate has added rows next to a cancelled one-off that sits on a candidate instant
C9_Witness ==
    /\ last.op = "generate" /\ last.status = "ok"
    /\ last.created = 2 /\ last.skippedExisting = 1
    /\ \E r \in ManualRows(occs) :
          /\ r.session_id = last.session_id /\ r.cancelled
          /\ r.starts_at = combine_local_date_time(Date(2026, 2, 4), Time(15, 30))

\* C10 as claimed: from every state, regenerate without deletion leaves the same table and
\* returns the same created and skippedExisting counts as generate
C10_RegenerateEqualsGenerate ==
    \A i \in RequestSessionIds :
        \A order \in OrderedLinkedBlocks(i) :
            LET gen   == GenerateResult(i, order)
                regen == RegenerateResult(i, FALSE, order)
            IN  /\ regen.status = gen.status
                /\ Commit(regen) = Commit(gen)
                /\ regen.created = gen.created
                /\ regen.skipped_existing = gen.skipped_existing

----------------------------------------------------------------------------
(* Rejections and failures                                                  *)

\* a session that generation refuses: special, or with a gap in its schedule
InvalidSession(i) ==
    /\ i \in DOMAIN sessions
    /\ \/ sessions[i].session_type = "special"
       \/ sessions[i].day_of_week = NoneInt
       \/ sessions[i].start_time = NoneInt
       \/ sessions[i].end_time = NoneInt

\* what generate and regenerate (destructive or not) hand back for a session
ResultsFor(i) ==
    UNION {{GenerateResult(i, order), RegenerateResult(i, TRUE, order),
            RegenerateResult(i, FALSE, order)} : order \in OrderedLinkedBlocks(i)}

\* C11: generate and regenerate answer not-found for a session that does not exist and a
\* validation error for a special session or one with an incomplete schedule, and in
\* both cases leave the occurrence table as it was
C11_InvalidSessionRejected ==
    \A i \in EditedRequestIds :
        \A out \in ResultsFor(i) :
            /\ i \notin DOMAIN sessions => out.status = "NotFound" /\ Commit(out) = occs
            /\ InvalidSession(i) => out.status = "Validation" /\ Commit(out) = occs

\* a destructive regenerate has been refused for a special session without a day of week
\* that is linked to blocks and still has generated rows, and they are all still there
C11_Witness ==
    /\ last.op = "regenerate" /\ last.delete_auto_generated /\ last.status = "Validation"
    /\ last.session_id = "s1"
    /\ sessions["s1"].session_type = "special" /\ sessions["s1"].day_of_week = NoneInt
    /\ LinkedBlocks("s1") = BlockIds
    /\ EarlierGenerated \sqsubseteq occs

\* C12: generate and regenerate answer a validation error for a term session without
\* linked blocks and leave the occurrence table as it was, the generated rows included
C12_NoBlocksRejected ==
    \A i \in EditedRequestIds \cap DOMAIN sessions :
        (sessions[i].session_type = "term" /\ LinkedBlocks(i) = {}) =>
            \A out \in ResultsFor(i) : out.status = "Validation" /\ Commit(out) = occs

\* a destructive regenerate has been refused for a term session that has no blocks left,
\* and its two generated rows are still there
C12_Witness ==
    /\ last.op = "regenerate" /\ last.delete_auto_generated /\ last.status = "Validation"
    /\ last.session_id = "s1"
    /\ sessions["s1"].session_type = "term" /\ LinkedBlocks("s1") = {}
    /\ CountRows(occs, GeneratedOf(occs, "s1")) = 2

\* C13: a generate or regenerate request in which a statement fails leaves the committed
\* occurrence table exactly as it was before the request
C13_StorageFailureRollsBack ==
    \A i \in RequestSessionIds :
        \A out \in ResultsFor(i) : out.status = "DBAPIError" => Commit(out) = occs

\* a destructive regenerate of a Wednesday session with three generated rows has failed
\* on its sixth statement, after the delete and the first insert, and the three rows
\* are still there
C13_Witness ==
    /\ last.op = "regenerate" /\ last.delete_auto_generated /\ last.status = "DBAPIError"
    /\ storage = 5
    /\ sessions[last.session_id].day_of_week = 2
    /\ LinkedBlocks(last.session_id) = {"b1"} /\ exclusions = {}
    /\ {r.starts_at : r \in GeneratedOf(occs, last.session_id)} =
          {combine_local_date_time(Date(2026, 2, d), Time(15, 30)) : d \in {4, 11, 18}}

----------------------------------------------------------------------------
(* Cancellation                                                             *)

\* the rows of db that differ from o at most in cancelled and cancellation_reason
SameOccurrence(o) ==
    {c \in [session_id : {o.session_id}, block_id : {o.block_id}, starts_at : {o.starts_at},
            ends_at : {o.ends_at}, auto_generated : {o.auto_generated},
            cancelled : BOOLEAN,
            cancellation_reason : {None} \cup {d.cancellation_reason : d \in OccurrenceCancelChoices}] :
        TRUE}

\* C14: a row that generate, regenerate or create_occurrence adds is not cancelled;
\* cancel_occurrence can be called on every row with either value of cancelled, and a
\* cancel_occurrence step replaces exactly one row by a row that differs from it at most
\* in cancelled and cancellation_reason, so nothing is deleted and starts_at, ends_at,
\* block_id and auto_generated stay
C14_CancelStateMachine ==
    /\ [](\A o \in Rows(occs), data \in OccurrenceCancelChoices :
            LET out == CancelResult(o, data) IN
            /\ out.status = "ok"
            /\ \E c \in SameOccurrence(o) :
                  /\ c.cancelled = data.cancelled
                  /\ Commit(out) = (occs (-) SetToBag({o})) (+) SetToBag({c}))
    /\ [][/\ last'.op # "cancel" =>
                \A r \in Rows(occs') :
                    CopiesIn(r, occs') > CopiesIn(r, occs) =>
                        ~r.cancelled /\ r.cancellation_reason = None
          /\ last'.op = "cancel" =>
                \E o \in Rows(occs) : \E c \in SameOccurrence(o) :
                    occs' = (occs (-) SetToBag({o})) (+) SetToBag({c})]_vars

\* a generated occurrence has been cancelled because of the weather and the session
\* still has its three Wednesdays on the calendar
C14_Witness ==
    /\ last.op = "cancel" /\ last.status = "ok"
    /\ CountRows(occs, GeneratedOf(occs, last.session_id)) = 3
    /\ \E r \in GeneratedOf(occs, last.session_id) :
          r.cancelled /\ r.cancellation_reason = "Weather"

----------------------------------------------------------------------------

\* C20 as claimed: after a destructive regenerate that returned counts, every linked block
\* has an occurrence of the session on each of its qualifying dates, at the session's
\* start time
C20_RegenerateRecreatesAll ==
    (last.op = "regenerate" /\ last.delete_auto_generated /\ last.status = "ok") =>
        \A b \in LinkedBlocks(last.session_id) :
            \A d \in QualifyingDates(sessions[last.session_id], blocks[b]) :
                \E r \in OccurrencesOf(occs, last.session_id) :
                    r.starts_at = combine_local_date_time(d, sessions[last.session_id].start_time)

----------------------------------------------------------------------------
(* Signups                                                                  *)

\* C15 as claimed: create_signup for a session and child that already have a signup, in
\* whatever status, succeeds and returns the id of that signup, and the pair still has
\* one signup
C15_DuplicateReturnsExisting ==
    \A r \in SignupRequestChoices :
        \A g \in SignupsFor(signups, r.session_id, r.child_id) :
            g.caregiver_id = r.caregiver_id =>
                LET out == CreateSignup(signups, now, r.caregiver_id, r.session_id, r.child_id)
                IN  /\ out.status = "ok"
                    /\ out.id = g.id
                    /\ Cardinality(SignupsFor(out.db, r.session_id, r.child_id)) = 1

\* C16: withdraw_signup by the owner succeeds on a signup in any status and leaves it
\* withdrawn; a further call, at the same time or a day later, succeeds too and leaves
\* the signups table, withdrawn_at included, exactly as the first call left it
C16_WithdrawIdempotent ==
    \A g \in signups :
        \A later \in {now, now + MinutesPerDay} :
            LET first  == WithdrawSignup(signups, now, g.caregiver_id, g.id)
                second == WithdrawSignup(first.db, later, g.caregiver_id, g.id)
            IN  /\ first.status = "ok" /\ first.signup_status = "withdrawn"
                /\ second.status = "ok" /\ second.signup_status = "withdrawn"
                /\ second.db = first.db

\* a signup withdrawn the day before has been withdrawn twice more today and still
\* carries yesterday's withdrawn_at
C16_Witness ==
    /\ last.op = "withdraw_signup" /\ last.again /\ last.status = "ok"
    /\ last.signup_status = "withdrawn"
    /\ \E g \in signups :
          /\ g.id = last.signup_id /\ g.status = "withdrawn"
          /\ g.withdrawn_at # NoneInt /\ Today(g.withdrawn_at) < Today(now)

\* C17: a create_signup call that succeeds, for a new signup or for a withdrawn one,
\* answers waitlisted when the child's age is outside the session's range, the session
\* is in waitlist mode or its confirmed signups have reached the capacity, answers
\* confirmed otherwise, and stores that status
C17_StatusRule ==
    \A r \in SignupRequestChoices :
        LET out == CreateSignup(signups, now, r.caregiver_id, r.session_id, r.child_id) IN
        out.status = "ok" =>
            LET s       == sessions[r.session_id]
                age     == Age(children[r.child_id], now)
                outside == age < s.age_lower \/ age > s.age_upper
                full    == Cardinality({g \in signups : g.session_id = r.session_id
                                                          /\ g.status = "confirmed"})
                              >= s.capacity
            IN  /\ out.signup_status =
                      IF outside \/ s.waitlist \/ full THEN "waitlisted" ELSE "confirmed"
                /\ \E g \in out.db :
                      /\ g.id = out.id /\ g.status = out.signup_status
                      /\ g.session_id = r.session_id /\ g.child_id = r.child_id

\* the ten-year-old, whose withdrawn signup was the session's first, has signed up again
\* after the only place went to another child, and is on the waitlist
C17_Witness ==
    /\ last.op = "create_signup" /\ last.status = "ok"
    /\ last.child_id = "k1" /\ last.id = 1 /\ last.signup_status = "waitlisted"
    /\ ~sessions[last.session_id].waitlist
    /\ \E g \in signups : g.id = 2 /\ g.child_id = "k2" /\ g.status = "confirmed"
    /\ \E g \in signups : g.id = 1 /\ g.status = "waitlisted" /\ g.withdrawn_at = NoneInt

----------------------------------------------------------------------------
(* Caregiver login                                                          *)

\* the magic links that have been used
UsedLinks == {l \in magic_links : l.used_at # NoneInt}

\* C18 as claimed: however consume requests interleave, no more caregiver sessions have
\* been created than magic links have been used, i.e. at most one session per link
C18_OneSessionPerLink ==
    Cardinality(caregiver_sessions) <= Cardinality(UsedLinks)

\* C19: a cookie authenticates only if its hash is the token_hash of a session that is
\* neither revoked nor expired; logout answers ok for every cookie, a forged one and none
\* included, and the cookie it was called with is rejected from then on (a cookie that
\* is rejected stays rejected)
C19_SessionValidity ==
    [][/\ \A raw \in Cookies :
            get_current_caregiver(caregiver_sessions, now, raw) # None =>
                \E s \in caregiver_sessions :
                    /\ s.token_hash = hash_token(raw)
                    /\ s.revoked_at = NoneInt
                    /\ now < s.expires_at
       /\ \A raw \in Cookies : ENABLED logout(raw)
       /\ last'.op = "logout" =>
            /\ last'.status = "ok"
            /\ get_current_caregiver(caregiver_sessions', now', last'.token) = None
       /\ \A raw \in Cookies :
            get_current_caregiver(caregiver_sessions, now, raw) = None =>
                get_current_caregiver(caregiver_sessions', now', raw) = None]_vars

\* a request has been refused with the cookie of a session that was logged out and has
\* not expired
C19_Witness ==
    /\ last.op = "me" /\ last.status = "NotAuthorized"
    /\ \E s \in caregiver_sessions :
          /\ s.token_hash = hash_token(last.token)
          /\ s.revoked_at # NoneInt
          /\ s.expires_at > now

----------------------------------------------------------------------------
(* Counters, exclusion years, timezones                                     *)

\* the candidates of a generate call that are not excluded: a linked block and a date
\* in it on the session's weekday that is no exclusion date of the block's year
NonExcludedCandidates(session_id) ==
    UNION {{<<b, d>> : d \in QualifyingDates(sessions[session_id], blocks[b])} :
              b \in LinkedBlocks(session_id)}

\* the start instants of those candidates
CandidateInstants(session_id) ==
    {combine_local_date_time(c[2], sessions[session_id].start_time) :
        c \in NonExcludedCandidates(session_id)}

\* C21: a generate call that returns counts removes nothing, adds exactly `created`
\* rows, one for each candidate instant that had no occurrence, and created +
\* skippedExisting is the number of non-excluded candidates summed over the linked
\* blocks (an excluded candidate counts for neither)
C21_CountAccounting ==
    [][(last'.op = "generate" /\ last'.status = "ok") =>
          LET i == last'.session_id
              fresh == {t \in CandidateInstants(i) : SelectAt(occs, i, t) = {}}
          IN  /\ last'.created + last'.skippedExisting = Cardinality(NonExcludedCandidates(i))
              /\ last'.created = Cardinality(fresh)
              /\ occs \sqsubseteq occs'
              /\ BagCardinality(occs') = BagCardinality(occs) + last'.created
              /\ \A t \in fresh : CountRows(occs', SelectAt(occs', i, t)) = 1]_vars

\* a generate call over two blocks sharing the Wednesdays 02-11 and 02-18, with 02-11
\* excluded: 02-04, 02-18 and 02-25 are created, 02-18 is skipped for the second block
C21_Witness ==
    /\ last.op = "generate" /\ last.status = "ok"
    /\ last.created = 3 /\ last.skippedExisting = 1
    /\ LinkedBlocks(last.session_id) = BlockIds
    /\ exclusions = {ExclusionRow(Date(2026, 2, 11))}
    /\ blocks["b2"].year = 2026 /\ blocks["b2"].end_date = Date(2026, 2, 25)

\* an exclusion row of the year the block is filed under exists for the day
ExcludedForBlock(block, day) ==
    \E x \in exclusions : x.year = block.year /\ x.exclusion_date = day

\* the rows a step has added to the table
AddedRows(before, after) == {r \in Rows(after) : CopiesIn(r, after) > CopiesIn(r, before)}

\* C22: generating for a block passes over a day if and only if an exclusion row with
\* year = block.year and that date exists; so after a generate call that returned counts
\* every candidate without such a row has an occurrence, whatever exclusion rows of
\* other years say, and no row was added on a day that has such a row
C22_ExclusionByBlockYear ==
    /\ [](\A i \in RequestSessionIds : \A b \in LinkedBlocks(i) :
             \A day \in blocks[b].start_date .. blocks[b].end_date :
                 (GenerateVisit(i, sessions[i], b, day, StartAcc(occs, 3)) = StartAcc(occs, 3))
                     <=> ExcludedForBlock(blocks[b], day))
    /\ [][(last'.op = "generate" /\ last'.status = "ok") =>
             LET i == last'.session_id IN
             /\ \A b \in LinkedBlocks(i) :
                   \A day \in blocks[b].start_date .. blocks[b].end_date :
                       (Weekday(day) = sessions[i].day_of_week
                          /\ ~ExcludedForBlock(blocks[b], day)) =>
                           SelectAt(occs', i, combine_local_date_time(day, sessions[i].start_time)) # {}
             /\ \A r \in AddedRows(occs, occs') :
                   ~ExcludedForBlock(blocks[r.block_id], LocalDate(r.starts_at))]_vars

\* Wednesday 2026-02-11 is an exclusion date of 2026, and generate has put an occurrence
\* of the session on it for the block 2026-02-09 .. 2026-02-13 that is filed under 2027
C22_Witness ==
    /\ last.op = "generate" /\ last.status = "ok"
    /\ ExclusionRow(Date(2026, 2, 11)) \in exclusions
    /\ blocks["b2"].year = 2027
    /\ \E r \in GeneratedOf(occs, last.session_id) :
          r.block_id = "b2" /\ LocalDate(r.starts_at) = Date(2026, 2, 11)

\* utcoffset of ZoneInfo(name) on the modelled dates (February: NZDT, AEDT)
UtcOffsetOf(timezone) ==
    CASE timezone = "Pacific/Auckland" -> 13 * 60
      [] timezone = "Australia/Sydney" -> 11 * 60
      [] timezone = "UTC" -> 0

\* datetime.combine(d, t, tzinfo=ZoneInfo(block.timezone))
CombineInBlockZone(block, d, t) == d * MinutesPerDay + t - UtcOffsetOf(block.timezone)

\* C23 as claimed: every generated occurrence starts and ends at the session's start
\* and end time on a date of its block on the session's weekday, read in the timezone
\* the block declares
C23_BlockTimezoneHonoured ==
    \A r \in GeneratedOf(occs, "s1") :
        \E d \in blocks[r.block_id].start_date .. blocks[r.block_id].end_date :
            /\ Weekday(d) = sessions["s1"].day_of_week
            /\ r.starts_at = CombineInBlockZone(blocks[r.block_id], d, sessions["s1"].start_time)
            /\ r.ends_at = CombineInBlockZone(blocks[r.block_id], d, sessions["s1"].end_time)

----------------------------------------------------------------------------
(* Generate requests served at the same time                                *)

\* the generated rows of a session at one start instant
GeneratedAt(db, session_id, starts_at) ==
    {r \in GeneratedOf(db, session_id) : r.starts_at = starts_at}

\* C24: nothing keeps a generate request that found no occurrence at a start instant
\* from committing the row it added for it: the table accepts the rows of every request
\* that has finished its loop, the commit answers with the request's counts and adds
\* exactly its rows, whatever other requests have committed since it looked
C24_ConcurrentGenerateRace ==
    /\ [](\A g \in generating : session_occurrences_constraints(occs (+) g.pending))
    /\ [][\A g \in generating :
             (g.order = <<>> /\ generating' = generating \ {g} /\ last'.op = "generate") =>
                 /\ last'.status = "ok"
                 /\ last'.created = BagCardinality(g.pending)
                 /\ occs' = occs (+) g.pending]_vars

\* two requests for s1 have both committed and two generated occurrences of s1 share
\* a start instant
C24_Witness ==
    /\ last.op = "generate" /\ last.status = "ok" /\ last.created > 0
    /\ generating = {}
    /\ \E r \in GeneratedOf(occs, "s1") :
          CountRows(occs, GeneratedAt(occs, "s1", r.starts_at)) = 2

----------------------------------------------------------------------------
(* Repeated magic-link requests                                             *)

\* the links of a caregiver that can still be used at the instant `at`
UsableLinksOf(table, at, caregiver_id) ==
    {l \in table : l.caregiver_id = caregiver_id /\ l.used_at = NoneInt /\ l.expires_at > at}

\* C25 as claimed: a caregiver never has more than one usable (unused, unexpired) magic
\* link, because a request made while one exists adds no row
C25_AtMostOneUsableLink ==
    \A c \in DOMAIN caregivers : Cardinality(UsableLinksOf(magic_links, now, c)) <= 1

----------------------------------------------------------------------------
(* Deleting a session                                                       *)

\* C26 as claimed: delete_session on an existing session succeeds, and afterwards the
\* session, its occurrences, its block links and its signups are gone
C26_DeleteRemovesAll ==
    [][(last'.op = "delete_session" /\ last'.session_id \in DOMAIN sessions) =>
          /\ last'.status = "ok"
          /\ last'.session_id \notin DOMAIN sessions'
          /\ OccurrencesOf(occs', last'.session_id) = {}
          /\ ~\E l \in links' : l.session_id = last'.session_id
          /\ ~\E g \in signups' : g.session_id = last'.session_id]_vars

----------------------------------------------------------------------------
(* Generation over whatever is on the calendar                              *)

\* C27 as claimed: for a term session with a complete schedule and at least one linked
\* block, generate and regenerate answer with counts, never with an error, whatever
\* occurrences create, cancel, generate and regenerate have left in the table
C27_GenerationNeverFails ==
    [][(/\ last'.op \in {"generate", "regenerate"}
        /\ last'.session_id \in DOMAIN sessions
        /\ sessions[last'.session_id].session_type = "term"
        /\ sessions[last'.session_id].day_of_week # NoneInt
        /\ LinkedBlocks(last'.session_id) # {}) =>
          last'.status = "ok"]_vars

----------------------------------------------------------------------------
(* Cancelled occurrences under generation                                   *)

\* a cancelled occurrence at the session and start instant of r, with r's reason
StillCancelled(db, r) ==
    \E q \in Rows(db) :
        /\ q.session_id = r.session_id /\ q.starts_at = r.starts_at
        /\ q.cancelled /\ q.cancellation_reason = r.cancellation_reason

\* C28 as claimed: a generate or regenerate call, with delete_auto_generated true or
\* false, leaves every cancelled occurrence cancelled with its reason, generated or manual
C28_CancellationSurvives ==
    [][last'.op \in {"generate", "regenerate"} =>
          \A r \in CancelledRows(occs) : StillCancelled(occs', r)]_vars

\* the rows a regenerate call with delete_auto_generated = true deletes
BulkDeleted(db, response) ==
    IF response.op = "regenerate" /\ response.delete_auto_generated
    THEN GeneratedOf(db, response.session_id) ELSE {}

\* C28 as amended: a generate or regenerate call leaves every cancelled occurrence in
\* the table as it is, cancelled with its reason, except the generated occurrences of
\* the session that a regenerate call with delete_auto_generated = true deletes
C28_CancellationSurvivesUnlessDeleted ==
    [][last'.op \in {"generate", "regenerate"} =>
          \A r \in CancelledRows(occs) \ BulkDeleted(occs, last') :
              /\ CopiesIn(r, occs') >= CopiesIn(r, occs)
              /\ StillCancelled(occs', r)]_vars

\* a regenerate call with delete_auto_generated = true has deleted generated rows and
\* the cancelled manual occurrence of the session is still there, cancelled
C28_Witness ==
    /\ last.op = "regenerate" /\ last.delete_auto_generated /\ last.status = "ok"
    /\ last.deleted > 0
    /\ \E r \in CancelledRows(occs) :
          /\ r.session_id = last.session_id /\ ~r.auto_generated
          /\ r.cancellation_reason = "Weather"

----------------------------------------------------------------------------
(* Capacity                                                                 *)

\* C29 as claimed: however create_signup and withdraw_signup requests interleave, a
\* session never has more confirmed signups than its capacity
C29_CapacityNeverExceeded ==
    \A i \in DOMAIN sessions : confirmed_count(signups, i) <= sessions[i].capacity

----------------------------------------------------------------------------
(* withdrawn_at                                                             *)

\* C30: whatever create_signup, withdraw_signup and set_signup_status calls have
\* been served, a signup has withdrawn_at set if and only if its status is withdrawn
C30_WithdrawnAtTracksStatus ==
    \A g \in signups : (g.withdrawn_at # NoneInt) <=> (g.status = "withdrawn")

\* the administrator has just confirmed a signup, which carries no withdrawn_at, while
\* another signup, withdrawn on an earlier day, keeps its stamp
C30_Witness ==
    /\ last.op = "set_signup_status" /\ last.status = "ok"
    /\ last.signup_status = "confirmed"
    /\ \E g \in signups : g.id = last.id /\ g.withdrawn_at = NoneInt
    /\ \E g \in signups : g.status = "withdrawn" /\ g.withdrawn_at < now

====
